---- MODULE Spec2Model ----
(***************************************************************************)
(* A model of the mesh nodes of B2B_Communication.                         *)
(*                                                                         *)
(*  - src/src/mesh/mesh_node.py : MeshNode, the UDP mesh node with         *)
(*    neighbours, routing table, TTL flooding and duplicate suppression.   *)
(*  - src/mesh_chat.py          : MeshNode of the broadcast variant, of    *)
(*    which the bounded dedup cache message_ids_seen and the peer table    *)
(*    with its sweep (_cleanup_loop) are modelled.                         *)
(*                                                                         *)
(* Every handler is one action.  A datagram is addressed by the node that  *)
(* owns the receiving socket; a node's address is its node id.  The        *)
(* network holds the datagrams in flight as a set.                         *)
(***************************************************************************)
EXTENDS Integers, Sequences, FiniteSets, TLC

VARIABLES
    running,             \* MeshNode.running
    sock_open,           \* whether MeshNode._sock is open (bound in __init__, closed by stop)
    alive,               \* whether the thread running _listen_loop exists and has not ended
    neighbors,           \* MeshNode.neighbors: neighbor_id -> address
    routing_table,       \* MeshNode.routing_table: dest_id -> next_hop_id
    sequence_num,        \* MeshNode.sequence_num
    delivered_messages,  \* MeshNode.delivered_messages
    inbox,               \* MeshNode.inbox
    callbacks,           \* the deliveries on_message was invoked with, in order
    net,                 \* datagrams in flight
    sends,               \* the send_message calls made so far
    budget,              \* API calls and foreign datagrams still allowed by the bounds
    ev,                  \* what the last step did: its input and its transmissions
    hb_alive,            \* whether a thread running _heartbeat_loop exists and has not ended
    threads,             \* how many threads start() has started for each loop
    stop_pc,             \* where a caller of stop() is: "idle", "join_listen", "join_hb"
    message_ids_seen,    \* mesh_chat.py, MeshNode.message_ids_seen
    chat_ev,             \* what the last MESSAGE handled by the mesh_chat.py node did
    now,                 \* time.time(), in whole seconds
    chat_peers,          \* mesh_chat.py, MeshNode.peers: node_id -> last_seen
    chat_routing_table,  \* mesh_chat.py, MeshNode.routing_table: dest_id -> next_hop_id
    cleanup_pc,          \* where the thread of _cleanup_loop is: "sleep" or "woken"
    slept_from,          \* when the time.sleep(5) of _cleanup_loop began
    cleanup_now,         \* the local `now` of _cleanup_loop
    heard,               \* when the last HELLO of each peer was handled
    peer_ev,             \* what the last step of the mesh_chat.py peer table did
    lock,                \* the thread that holds MeshNode._lock, or None
    t_op,                \* the method each thread of the node is executing, or "idle"
    t_pc,                \* the instruction of that method the thread executes next
    t_reg,               \* the value a thread has loaded for `self.sequence_num += 1`
    made,                \* the counters embedded in the msg_ids made so far, in order
    started,             \* how many method executions have begun
    thread_ev,           \* the last instruction executed: who, what, and under the lock or not
    variant,             \* which broadcast program the nodes run: "tracer", "web" or "wifi"
    bc_peers,            \* the keys of `peers` of each node of that program
    bc_seen,             \* its seen_messages / message_ids_seen
    bc_shown,            \* the msg_ids it has printed or passed to its callbacks, in order
    bc_net,              \* the datagrams of that program in flight
    bc_budget,           \* send_message calls and foreign datagrams still allowed
    bc_ev,               \* what the last step of that program did
    got                  \* the list the last get_inbox() returned, as its caller holds it

lifeVars == <<hb_alive, threads, stop_pc>>
meshButEv == <<running, sock_open, alive, neighbors, routing_table, sequence_num,
               delivered_messages, inbox, callbacks, net, sends, budget, lifeVars>>
meshVars == <<running, sock_open, alive, neighbors, routing_table, sequence_num,
              delivered_messages, inbox, callbacks, net, sends, budget, ev, lifeVars>>
cacheVars == <<message_ids_seen, chat_ev>>
peerVars == <<now, chat_peers, chat_routing_table, cleanup_pc, slept_from, cleanup_now,
              heard, peer_ev>>
threadVars == <<lock, t_op, t_pc, t_reg, made, started, thread_ev>>
variantVars == <<variant, bc_peers, bc_seen, bc_shown, bc_net, bc_budget, bc_ev>>
callerVars == <<got>>
chatVars == <<cacheVars, peerVars, threadVars, variantVars, callerVars>>
vars == <<meshVars, chatVars>>

----------------------------------------------------------------------------
(* Bounds of the model. *)

\* largest ttl a caller or the environment puts in a packet
MaxTTL == 2
\* API calls and datagrams of the environment in a run
MaxOps == 3
\* send_message calls and heartbeat rounds in a run of the chain
MaxChainOps == 2
\* API calls and datagrams of the environment in a run of the life cycle
MaxLifeOps == 4
\* method executions begun in a run of the threads
MaxThreadOps == 3
\* API calls in a run of the pair
MaxPairOps == 2
\* send_message calls and foreign datagrams in a run of a broadcast program
MaxVariantOps == 1
\* the largest ttl of a foreign MESSAGE, one that has travelled far
MaxVariantTTL == 2
\* send_message calls in a run of the ring
MaxRingOps == 2
\* send_message calls in a run of the diamond
MaxDiamondOps == 1
\* the last second of the clock
MaxTime == 23
\* the most seconds by which time.sleep and the scheduler delay a sweep
MaxLag == 1

----------------------------------------------------------------------------
(* Identities, addresses and packets. *)

\* the nodes that run; a node's address (127.0.0.1, listen_port) is named by its id
Node == {"A", "B", "C"}
\* the identities a packet may name: "D" is an identity no running node owns
Ids == Node \cup {"D"}
\* an absent or empty field: packet.get(...) returning None, or ""
None == ""
\* the address of a host that is not one of the nodes
Foreign == "X"
Addr == Node \cup {Foreign}
\* an absent msg_id
NoId == <<>>
MsgId(n, s) == <<n, s>>
Payload == {"p"}
\* the ttl values of the packets that are sent: exhausted, last hop, and the largest
TTLs == {0, 1, MaxTTL}

\* A datagram's content.  form says what the bytes are: a JSON object (the only
\* form a node emits), bytes that are not UTF-8, text that is not JSON, or JSON
\* that is not an object.  ttl_ok says whether int() accepts the ttl field.
NoPkt == [form |-> "object", type |-> "NONE", node_id |-> None, msg_id |-> NoId,
          source |-> None, dest |-> None, ttl |-> 0, ttl_ok |-> TRUE,
          prev_hop |-> None, payload |-> None]

\* a HELLO that does not say who sends it
HelloPktAnonymous(n) == [NoPkt EXCEPT !.type = "HELLO"]

HelloPkt(n) == [NoPkt EXCEPT !.type = "HELLO", !.node_id = n]

DataPkt(m, src, dst, ttl, payload) ==
    [NoPkt EXCEPT !.type = "DATA", !.msg_id = m, !.source = src, !.dest = dst,
                  !.ttl = ttl, !.payload = payload]

AckPkt(m, src, dst) ==
    [NoPkt EXCEPT !.type = "ACK", !.msg_id = m, !.source = src, !.dest = dst]

Garbage(form) == [NoPkt EXCEPT !.form = form]

\* one transmission: _send(packet, addr) made for the neighbours entry nbr
Tx(nbr, addr, pkt) == [nbr |-> nbr, addr |-> addr, pkt |-> pkt]

\* the state of a node that is recorded before a step: nothing yet
NoPre == [neighbors |-> [i \in Ids |-> None], routing_table |-> [i \in Ids |-> None],
          delivered_messages |-> {}, inbox |-> <<>>, callbacks |-> <<>>,
          sequence_num |-> 0, running |-> FALSE, sock_open |-> FALSE, alive |-> FALSE]

\* the record of the last step: the operation, the node, the datagram handled,
\* the calls of _send it made, and the node's state before the step
NoEv == [op |-> "init", node |-> None, from |-> None, pkt |-> NoPkt, out |-> {},
         dup |-> FALSE, delivered |-> FALSE, was_running |-> FALSE, was_open |-> FALSE,
         raised |-> FALSE, pre |-> NoPre]

----------------------------------------------------------------------------
(* The tables of one node. *)

NoNeighbors == [i \in Ids |-> None]
NoRoutes == [i \in Ids |-> None]

\* dict(neighbors_items): the ids that are keys of the neighbours table
NeighborIds(nb) == {i \in Ids : nb[i] # None}

\* routing_table.get(dest) with the test `next_hop and next_hop in neighbors_map`
UsableRoute(rt, nb, dest) ==
    dest \in Ids /\ rt[dest] # None /\ rt[dest] \in NeighborIds(nb)

\* no flooding when there is no usable route
SendTargetsNoFlood(rt, nb, pkt) ==
    IF UsableRoute(rt, nb, pkt.dest)
    THEN {Tx(rt[pkt.dest], nb[rt[pkt.dest]], pkt)}
    ELSE {}

\* a route is used without asking whether its next hop is a neighbour
SendTargetsAnyRoute(rt, nb, pkt) ==
    IF pkt.dest \in Ids /\ rt[pkt.dest] # None
    THEN {Tx(rt[pkt.dest], nb[rt[pkt.dest]], pkt)}
    ELSE {Tx(i, nb[i], pkt) : i \in NeighborIds(nb)}

\* send_message: unicast to the next hop, else one copy per neighbour
SendTargets(rt, nb, pkt) ==
    IF UsableRoute(rt, nb, pkt.dest)
    THEN {Tx(rt[pkt.dest], nb[rt[pkt.dest]], pkt)}
    ELSE {Tx(i, nb[i], pkt) : i \in NeighborIds(nb)}

\* _forward: unicast to the next hop, else flood to every neighbour whose id is
\* not the packet's prev_hop field (which _handle_data has already rewritten)
ForwardTargets(rt, nb, pkt) ==
    IF UsableRoute(rt, nb, pkt.dest)
    THEN {Tx(rt[pkt.dest], nb[rt[pkt.dest]], pkt)}
    ELSE {Tx(i, nb[i], pkt) : i \in NeighborIds(nb) \ {pkt.prev_hop}}

\* an ACK for another node is forwarded like a DATA packet
AckEffectForward(rt, nb, pkt) == ForwardTargets(rt, nb, pkt)

\* _handle_packet, lines 97-100: an ACK is passed over, nothing is sent
AckEffect(rt, nb, pkt) == {}

\* no HELLO is sent back
HelloReplyNone(n, from, id) == {}

\* _handle_hello, lines 110-111: the HELLO sent back to the sender's address
HelloReply(n, from, id) == {Tx(id, from, HelloPkt(n))}

\* an ACK goes to the next hop or else to every neighbour
AckTargetsNoDirect(n, rt, nb, dest, m) ==
    LET pkt == AckPkt(m, n, dest) IN
    IF dest = None THEN {}
    ELSE IF UsableRoute(rt, nb, dest) THEN {Tx(rt[dest], nb[rt[dest]], pkt)}
    ELSE {Tx(i, nb[i], pkt) : i \in NeighborIds(nb)}

\* _send_ack: nothing without a source; the next hop, else the direct
\* neighbour, else every neighbour
AckTargets(n, rt, nb, dest, m) ==
    LET pkt == AckPkt(m, n, dest) IN
    IF dest = None THEN {}
    ELSE IF UsableRoute(rt, nb, dest) THEN {Tx(rt[dest], nb[rt[dest]], pkt)}
    ELSE IF dest \in NeighborIds(nb) THEN {Tx(dest, nb[dest], pkt)}
    ELSE {Tx(i, nb[i], pkt) : i \in NeighborIds(nb)}

\* a reverse route is learnt only for a source that has no route yet
LearnReverseFirstWins(rt, pkt) ==
    IF pkt.prev_hop # None /\ pkt.source # None /\ rt[pkt.source] = None
    THEN [rt EXCEPT ![pkt.source] = pkt.prev_hop]
    ELSE rt

\* _handle_data, lines 125-129: the reverse route learnt from a packet
LearnReverse(rt, pkt) ==
    IF pkt.prev_hop # None /\ pkt.source # None
    THEN [rt EXCEPT ![pkt.source] = pkt.prev_hop]
    ELSE rt

\* no duplicate is recognised
IsDuplicateNever(seen, m) == FALSE

\* only a negative ttl counts as exhausted
TtlExhaustedBelowZero(ttl) == ttl < 0

\* _handle_data, line 152: no hop is left
TtlExhausted(ttl) == ttl <= 0

\* _handle_data, lines 118-119: the duplicate test
IsDuplicate(seen, m) == m \in seen

\* the relayed copy keeps the prev_hop it came with
RelayedKeepHop(n, pkt) == [pkt EXCEPT !.ttl = pkt.ttl - 1]

\* the ttl is relayed as it came
RelayedSameTTL(n, pkt) == [pkt EXCEPT !.prev_hop = n]

\* _handle_data, lines 154-155: the copy that is relayed
Relayed(n, pkt) == [pkt EXCEPT !.ttl = pkt.ttl - 1, !.prev_hop = n]

\* get_inbox hands out the inbox list itself
GetInboxAliasesInbox == TRUE

\* get_inbox, line 240: `list(self.inbox)` is a new list, not the inbox
GetInboxAliases == FALSE

\* a list held by a caller: whether it is the node's inbox object, and its items
NoList == [alias |-> FALSE, items |-> <<>>]

\* the inbox entry built at lines 134-139 (the timestamp is left out)
Delivery(pkt) == [from |-> pkt.source, id |-> pkt.msg_id, payload |-> pkt.payload]

----------------------------------------------------------------------------
(* The dedup cache of the broadcast variant (mesh_chat.py; web_mesh_chat.py
   holds the same lines).  message_ids_seen is a Python set.  The model keeps
   its length and which of the ids of Tracked it holds; its other elements are
   ids of messages that arrive once and never again. *)

\* `if len(self.message_ids_seen) > 1000`
CacheLimit == 1000
\* `list(self.message_ids_seen)[-500:]`
CacheKeep == 500

\* the msg_ids that may arrive more than once
Tracked == {"x", "y"}
\* a msg_id that has never arrived before and will not arrive again
Fresh == "fresh"

EmptyCache == [size |-> 0, known |-> {}]

\* `msg_id in self.message_ids_seen`
InCache(c, m) == m \in c.known

\* `self.message_ids_seen.add(msg_id)` for an id that is not in the set
CacheAdd(c, m) ==
    [size |-> c.size + 1, known |-> IF m \in Tracked THEN c.known \cup {m} ELSE c.known]

\* the cache is never cut
TruncationsNone(c) == {c}

\* lines 176-177: over the limit, the set becomes the last CacheKeep elements of
\* list(set).  A set of strings is listed in the order of their hashes, which
\* differ from one process to the next, so any CacheKeep elements may be the ones
\* kept: any of the tracked ids may be among them or among the others.
Truncations(c) ==
    IF c.size > CacheLimit
    THEN {[size |-> CacheKeep, known |-> K] :
             K \in {L \in SUBSET c.known :
                      /\ Cardinality(L) <= CacheKeep
                      /\ Cardinality(c.known \ L) <= c.size - CacheKeep}}
    ELSE {c}

NoChatEv == [id |-> None, dup |-> FALSE, truncated |-> FALSE, delivered |-> FALSE,
             out |-> {}]

----------------------------------------------------------------------------
(* The peer table of the broadcast variant (mesh_chat.py). *)

\* `if now - last_seen > 15`
StaleAfter == 15
\* `time.sleep(5)` of _cleanup_loop
SweepSleep == 5

\* the node whose peer table is modelled, and the peers that announce themselves
ChatNode == "A"
ChatPeers == {"B", "C"}
\* no entry in self.peers
Absent == -1

NoChatPeers == [p \in ChatPeers |-> Absent]
NoChatRoutes == [p \in ChatPeers |-> None]

\* get_active_peers(): list(self.peers.keys())
GetActivePeers(pt) == {p \in ChatPeers : pt[p] # Absent}

\* a peer is stale as soon as the window has passed
IsStaleAtLimit(t, last_seen) == t - last_seen >= StaleAfter

\* a peer is stale only a sweep interval after the window has passed
IsStaleLate(t, last_seen) == t - last_seen > StaleAfter + SweepSleep

\* _cleanup_loop, line 213: the staleness test
IsStale(t, last_seen) == t - last_seen > StaleAfter

\* _cleanup_loop, lines 211-214: stale_peers
StalePeers(pt, t) == {p \in GetActivePeers(pt) : IsStale(t, pt[p])}

\* the time of a known peer is not refreshed
UpsertKeepFirst(pt, p, t) == IF pt[p] # Absent THEN pt ELSE [pt EXCEPT ![p] = t]

\* _handle_hello, line 153: self.peers[peer_id] = time.time()
Upsert(pt, p, t) == [pt EXCEPT ![p] = t]

\* the observer is called once for every evicted peer
SweepNotificationsPerPeer(stale) == Cardinality(stale)

\* _cleanup_loop, lines 221-222: the calls of on_peers_update a sweep makes
SweepNotifications(stale) == IF stale # {} THEN 1 ELSE 0

\* _handle_hello, lines 159-160: the calls of on_peers_update a HELLO of
\* another node causes, whether the peer was known or not
HelloNotifications(known) == 1

NoPeerEv == [op |-> "init", id |-> None, known |-> FALSE, removed |-> {}, notified |-> 0]

----------------------------------------------------------------------------
(* The threads of one node of mesh_node.py and the instructions of its methods:
   what each does to the lock, the shared tables, the counter and the socket,
   in the order of the source. *)

Thread == {"listen", "heartbeat", "cleanup", "caller1", "caller2"}

\* the tables the lock is for
Guarded == {"neighbors", "routing_table", "delivered_messages", "inbox"}

Instr(k, v) == [k |-> k, v |-> v]
Acquire == Instr("acquire", "_lock")
Release == Instr("release", "_lock")
ReadOf(v) == Instr("read", v)
WriteOf(v) == Instr("write", v)
SendTo == Instr("send", "_sock")

\* _heartbeat_loop, lines 84-87
HeartbeatProgram == <<Acquire, ReadOf("neighbors"), Release, SendTo>>

\* the HELLO reply is sent before the lock is released
HandleHelloProgramSendLocked ==
    <<Acquire, WriteOf("neighbors"), WriteOf("routing_table"), SendTo, Release>>

\* _handle_hello, lines 106-111
HandleHelloProgram ==
    <<Acquire, WriteOf("neighbors"), WriteOf("routing_table"), Release, SendTo>>

\* _handle_data up to the reverse route, lines 118-129
HandleDataProgram ==
    <<ReadOf("delivered_messages"), WriteOf("delivered_messages"),
      Acquire, WriteOf("routing_table"), Release>>

\* _send_ack, lines 220-231
SendAckProgram ==
    <<Acquire, ReadOf("routing_table"), ReadOf("neighbors"), Release, SendTo>>

\* _forward, lines 195-207
ForwardProgram ==
    <<Acquire, ReadOf("routing_table"), ReadOf("neighbors"), Release, SendTo>>

\* _handle_data for a message addressed to the node, lines 118-149
DeliverProgram ==
    HandleDataProgram \o <<Acquire, WriteOf("inbox"), Release,
                            Instr("call", "on_message")>> \o SendAckProgram

\* _handle_data for a message to relay, lines 118-129 and 152-156
RelayProgram == HandleDataProgram \o ForwardProgram

\* send_message, lines 169-191: `self.sequence_num += 1` is a load, an add and
\* a store, and the msg_id reads the counter again
SendMessageProgram ==
    <<Instr("load", "sequence_num"), Instr("store", "sequence_num"),
      Instr("make_id", "sequence_num"),
      Acquire, ReadOf("routing_table"), ReadOf("neighbors"), Release, SendTo>>

\* add_static_neighbor, lines 244-246
AddStaticNeighborProgram ==
    <<Acquire, WriteOf("neighbors"), WriteOf("routing_table"), Release>>

\* get_inbox, lines 239-240
GetInboxProgram == <<Acquire, ReadOf("inbox"), Release>>

\* web_mesh_chat.py, get_peers, lines 195-197
WebGetPeersProgram == <<Acquire, ReadOf("peers"), Release>>

\* web_mesh_chat.py, _notify_peer_change with a callback registered, lines
\* 190-193: the argument of the callback is built by get_peers(), then the
\* callback is called
WebNotifyProgram == WebGetPeersProgram \o <<Instr("callback", "message_callbacks")>>

\* web_mesh_chat.py, _handle_packet for the HELLO of a known peer, lines 122-127
WebHelloKnownProgram == <<Acquire, ReadOf("peers"), WriteOf("peers"), Release>>

\* web_mesh_chat.py, _handle_packet for the HELLO of a new peer, lines 122-130
WebHelloNewProgram == WebHelloKnownProgram \o WebNotifyProgram

\* web_mesh_chat.py, a round of _cleanup_loop that finds no stale peer, lines 181-185
WebSweepProgram == <<Acquire, ReadOf("peers"), Release>>

\* web_mesh_chat.py, a round of _cleanup_loop that finds a stale peer, lines
\* 181-188: the notification is issued inside `with self._lock`
WebSweepEvictProgram ==
    <<Acquire, ReadOf("peers"), WriteOf("peers")>> \o WebNotifyProgram \o <<Release>>

\* web_mesh_chat.py, a round of _heartbeat_loop, lines 165-176
WebHeartbeatProgram == <<SendTo>>

Program(op) ==
    CASE op = "heartbeat" -> HeartbeatProgram
      [] op = "web_get_peers" -> WebGetPeersProgram
      [] op = "web_hello_known" -> WebHelloKnownProgram
      [] op = "web_hello_new" -> WebHelloNewProgram
      [] op = "web_sweep" -> WebSweepProgram
      [] op = "web_sweep_evict" -> WebSweepEvictProgram
      [] op = "web_heartbeat" -> WebHeartbeatProgram
      [] op = "handle_hello" -> HandleHelloProgram
      [] op = "deliver" -> DeliverProgram
      [] op = "relay" -> RelayProgram
      [] op = "send_message" -> SendMessageProgram
      [] op = "add_static_neighbor" -> AddStaticNeighborProgram
      [] op = "get_inbox" -> GetInboxProgram

\* the methods each thread executes
OpsOf(t) ==
    CASE t = "listen" -> {"handle_hello", "deliver", "relay"}
      [] t = "heartbeat" -> {"heartbeat"}
      [] t = "cleanup" -> {}
      [] OTHER -> {"send_message", "add_static_neighbor", "get_inbox"}

\* the methods each thread of the node of web_mesh_chat.py executes
WebOpsOf(t) ==
    CASE t = "listen" -> {"web_hello_known", "web_hello_new"}
      [] t = "heartbeat" -> {"web_heartbeat"}
      [] t = "cleanup" -> {"web_sweep", "web_sweep_evict"}
      [] OTHER -> {"web_get_peers"}

NoThreadEv == [thread |-> None, op |-> "idle", k |-> "none", v |-> None, held |-> FALSE]

----------------------------------------------------------------------------
(* Initial states. *)

AddrOf(i) == IF i \in Node THEN i ELSE Foreign

\* the tables of node n once it has handled a HELLO of every node linked to it;
\* the address of a node is written as its id
Linked(links, n) == {m \in Ids : {n, m} \in links}
NeighborsOf(links, n) == [i \in Ids |-> IF i \in Linked(links, n) THEN i ELSE None]
RoutesOf(links, n) == [i \in Ids |-> IF i \in Linked(links, n) THEN i ELSE None]

Chain == {{"A", "B"}, {"B", "C"}}

----------------------------------------------------------------------------
(* The broadcast programs: packet_tracer_mesh.py, web_mesh_chat.py and
   wifi_direct_termux.py.  Their MESSAGE packets carry msg_id, from, to and ttl;
   `to` may be the token ALL. *)

Variant == {"tracer", "web", "wifi"}
All == "ALL"

\* the ttl send_message gives a packet: packet_tracer_mesh.py line 45,
\* web_mesh_chat.py line 97, wifi_direct_termux.py line 313
SendTtl(v) == IF v = "tracer" THEN 5 ELSE 10

BcMessage(m, from, to, ttl) ==
    [type |-> "MESSAGE", msg_id |-> m, from |-> from, to |-> to, ttl |-> ttl]

\* whether a fresh MESSAGE is printed or passed to the callbacks by node n
BcShows(v, n, pkt) == pkt.to \in {n, All}

\* wifi_direct_termux.py, _forward_message, lines 234-237: the ttl is decremented
\* first, and the packet goes out only when what is left is positive
WifiForward(pkt) ==
    IF pkt.ttl - 1 <= 0 THEN {} ELSE {[pkt EXCEPT !.ttl = pkt.ttl - 1]}

\* the copies node n transmits for a fresh MESSAGE:
\* packet_tracer_mesh.py lines 74-77, web_mesh_chat.py lines 146-162,
\* wifi_direct_termux.py lines 219-222
BcRelays(v, n, pkt) ==
    CASE v = "tracer" ->
            IF pkt.ttl > 0 /\ pkt.to # n THEN {[pkt EXCEPT !.ttl = pkt.ttl - 1]} ELSE {}
      [] v = "web" ->
            IF BcShows(v, n, pkt) THEN {}
            ELSE IF pkt.ttl > 0 THEN {[pkt EXCEPT !.ttl = pkt.ttl - 1]} ELSE {}
      [] OTHER ->
            IF BcShows(v, n, pkt) THEN {} ELSE WifiForward(pkt)

\* the nodes whose socket a datagram of node n reaches: the tracer and web
\* programs send to the broadcast address, which every node in range receives,
\* the sender included; the wifi program sends MESSAGEs to the ip of each peer
InRange(n) == Linked(Chain, n) \cup {n}
BcReach(v, n, peers) == IF v = "wifi" THEN peers ELSE InRange(n)

\* the recipients of send_message in the wifi program, lines 318-322
WifiRecipients(peers, to) == IF to = All THEN peers ELSE peers \cap {to}

NoBcEv == [op |-> "init", node |-> None, pkt |-> BcMessage(NoId, None, None, 0),
           fresh |-> FALSE,
           shown |-> FALSE, out |-> {}, reach |-> {}]

\* the broadcast program v loaded on every node, each node having handled a HELLO
\* of every other node in its range (none when no program is loaded); no MESSAGE
\* sent or received yet
Variants(v, ops) ==
    /\ variant = v
    /\ bc_peers = [n \in Node |-> IF v \in Variant THEN InRange(n) \ {n} ELSE {}]
    /\ bc_seen = [n \in Node |-> {}]
    /\ bc_shown = [n \in Node |-> <<>>]
    /\ bc_net = {}
    /\ bc_budget = ops
    /\ bc_ev = NoBcEv

\* the nodes of `up` constructed and started, those of `open` with their socket
\* bound; the hello exchange over the links complete; nothing sent or received
ConstructedOn(nodes, up, open, links, ops) ==
    /\ running = [n \in nodes |-> n \in up]
    /\ sock_open = [n \in nodes |-> n \in open]
    /\ alive = [n \in nodes |-> n \in up]
    /\ hb_alive = [n \in nodes |-> n \in up]
    /\ threads = [n \in nodes |-> IF n \in up THEN 1 ELSE 0]
    /\ stop_pc = [n \in nodes |-> "idle"]
    /\ neighbors = [n \in nodes |-> NeighborsOf(links, n)]
    /\ routing_table = [n \in nodes |-> RoutesOf(links, n)]
    /\ sequence_num = [n \in nodes |-> 0]
    /\ delivered_messages = [n \in nodes |-> {}]
    /\ inbox = [n \in nodes |-> <<>>]
    /\ callbacks = [n \in nodes |-> <<>>]
    /\ net = {}
    /\ sends = {}
    /\ budget = ops
    /\ ev = NoEv
    /\ message_ids_seen = EmptyCache
    /\ chat_ev = NoChatEv
    /\ now = 0
    /\ chat_peers = NoChatPeers
    /\ chat_routing_table = NoChatRoutes
    /\ cleanup_pc = "sleep"
    /\ slept_from = 0
    /\ cleanup_now = 0
    /\ heard = NoChatPeers
    /\ peer_ev = NoPeerEv
    /\ lock = None
    /\ t_op = [t \in Thread |-> "idle"]
    /\ t_pc = [t \in Thread |-> 1]
    /\ t_reg = [t \in Thread |-> 0]
    /\ made = <<>>
    /\ started = 0
    /\ thread_ev = NoThreadEv
    /\ got = NoList

\* the three nodes A, B and C
Constructed(up, open, links, ops) == ConstructedOn(Node, up, open, links, ops)

\* the same, with no broadcast program loaded
Built(up, open, links, ops) ==
    Constructed(up, open, links, ops) /\ Variants("none", 0)

\* the nodes of `up` constructed and started, the others stopped
Wired(up, links, ops) == Built(up, up, links, ops)

----------------------------------------------------------------------------
(* Steps of a node. *)

\* the datagrams a set of transmissions of node n puts in flight: _send swallows
\* the OSError of a closed socket, and a datagram to an address where no socket
\* is open is lost
Emit(n, out) ==
    IF sock_open[n]
    THEN {[to |-> t.addr, from |-> n, pkt |-> t.pkt] :
             t \in {u \in out : u.addr \in DOMAIN sock_open /\ sock_open[u.addr]}}
    ELSE {}

\* the state of node n as it is now
StateOf(n) ==
    [neighbors |-> neighbors[n], routing_table |-> routing_table[n],
     delivered_messages |-> delivered_messages[n], inbox |-> inbox[n],
     callbacks |-> callbacks[n], sequence_num |-> sequence_num[n],
     running |-> running[n], sock_open |-> sock_open[n], alive |-> alive[n]]

Event(op, n, from, pkt, out) ==
    [NoEv EXCEPT !.op = op, !.node = n, !.from = from, !.pkt = pkt, !.out = out,
                 !.pre = StateOf(n)]

\* start() spawns nothing and returns at once
AlreadyRunningNever(r) == FALSE

\* start(), lines 41-42: `if self.running: return`
AlreadyRunning(r) == r

\* start(): nothing when already running; else the two loops are spawned
Start(n) ==
    /\ UNCHANGED chatVars
    /\ budget > 0
    /\ budget' = budget - 1
    /\ IF AlreadyRunning(running[n])
       THEN UNCHANGED <<running, alive, hb_alive, threads>>
       ELSE /\ running' = [running EXCEPT ![n] = TRUE]
            /\ alive' = [alive EXCEPT ![n] = TRUE]
            /\ hb_alive' = [hb_alive EXCEPT ![n] = TRUE]
            /\ threads' = [threads EXCEPT ![n] = @ + 1]
    /\ ev' = [Event("start", n, None, NoPkt, {}) EXCEPT !.was_running = running[n],
                                                       !.was_open = sock_open[n]]
    /\ UNCHANGED <<sock_open, neighbors, routing_table, sequence_num,
                   delivered_messages, inbox, callbacks, net, sends, stop_pc>>

\* stop(), lines 50-54: the flag is cleared and the socket closed
Stop(n) ==
    /\ UNCHANGED chatVars
    /\ stop_pc[n] = "idle"
    /\ budget > 0
    /\ budget' = budget - 1
    /\ running' = [running EXCEPT ![n] = FALSE]
    /\ sock_open' = [sock_open EXCEPT ![n] = FALSE]
    /\ stop_pc' = [stop_pc EXCEPT ![n] = "join_listen"]
    /\ ev' = [Event("stop", n, None, NoPkt, {}) EXCEPT !.was_running = running[n],
                                                      !.was_open = sock_open[n]]
    /\ UNCHANGED <<alive, hb_alive, threads, neighbors, routing_table, sequence_num,
                   delivered_messages, inbox, callbacks, net, sends>>

\* join waits until the thread has ended
JoinReturnsWhenEnded(thread_alive) == ~thread_alive

\* thread.join(timeout=1.0) returns when the thread has ended or after 1 s
JoinReturns(thread_alive) == TRUE

\* stop(), lines 55-56: the join of the receive thread returns
StopJoinListen(n) ==
    /\ UNCHANGED chatVars
    /\ stop_pc[n] = "join_listen"
    /\ JoinReturns(alive[n])
    /\ stop_pc' = [stop_pc EXCEPT ![n] = "join_hb"]
    /\ ev' = Event("join", n, None, NoPkt, {})
    /\ UNCHANGED <<running, sock_open, alive, hb_alive, threads, neighbors, routing_table,
                   sequence_num, delivered_messages, inbox, callbacks, net, sends, budget>>

\* stop(), lines 57-58: the join of the heartbeat thread returns, and stop() with it
StopJoinHb(n) ==
    /\ UNCHANGED chatVars
    /\ stop_pc[n] = "join_hb"
    /\ JoinReturns(hb_alive[n])
    /\ stop_pc' = [stop_pc EXCEPT ![n] = "idle"]
    /\ ev' = Event("stopped", n, None, NoPkt, {})
    /\ UNCHANGED <<running, sock_open, alive, hb_alive, threads, neighbors, routing_table,
                   sequence_num, delivered_messages, inbox, callbacks, net, sends, budget>>

\* _listen_loop ends: recvfrom on the closed socket raises OSError, or the loop
\* finds running cleared
ListenExit(n) ==
    /\ UNCHANGED chatVars
    /\ alive[n]
    /\ ~running[n] \/ ~sock_open[n]
    /\ alive' = [alive EXCEPT ![n] = FALSE]
    /\ ev' = Event("listen_exit", n, None, NoPkt, {})
    /\ UNCHANGED <<running, sock_open, hb_alive, threads, stop_pc, neighbors, routing_table,
                   sequence_num, delivered_messages, inbox, callbacks, net, sends, budget>>

\* _heartbeat_loop ends: after its sleep the loop finds running cleared
HeartbeatExit(n) ==
    /\ UNCHANGED chatVars
    /\ hb_alive[n]
    /\ ~running[n]
    /\ hb_alive' = [hb_alive EXCEPT ![n] = FALSE]
    /\ ev' = Event("heartbeat_exit", n, None, NoPkt, {})
    /\ UNCHANGED <<running, sock_open, alive, threads, stop_pc, neighbors, routing_table,
                   sequence_num, delivered_messages, inbox, callbacks, net, sends, budget>>

\* connect_to_peer(ip, port): one HELLO to that address
ConnectToPeer(n, a) ==
    /\ UNCHANGED chatVars
    /\ budget > 0
    /\ budget' = budget - 1
    /\ LET out == {Tx(None, a, HelloPkt(n))} IN
       /\ net' = net \cup Emit(n, out)
       /\ ev' = Event("connect", n, None, NoPkt, out)
    /\ UNCHANGED <<running, sock_open, alive, neighbors, routing_table, sequence_num,
                   delivered_messages, inbox, callbacks, sends, lifeVars>>

\* add_static_neighbor(neighbor_id, ip, port)
AddStaticNeighbor(n, i, a) ==
    /\ UNCHANGED chatVars
    /\ budget > 0
    /\ budget' = budget - 1
    /\ neighbors' = [neighbors EXCEPT ![n][i] = a]
    /\ routing_table' = [routing_table EXCEPT ![n][i] = i]
    /\ ev' = Event("static", n, None, NoPkt, {})
    /\ UNCHANGED <<running, sock_open, alive, sequence_num,
                   delivered_messages, inbox, callbacks, net, sends, lifeVars>>

\* one round of _heartbeat_loop: a HELLO to every neighbour's address
Heartbeat(n) ==
    /\ UNCHANGED chatVars
    /\ running[n] /\ hb_alive[n]
    /\ NeighborIds(neighbors[n]) # {}
    /\ budget > 0
    /\ budget' = budget - 1
    /\ LET out == {Tx(i, neighbors[n][i], HelloPkt(n)) : i \in NeighborIds(neighbors[n])} IN
       /\ net' = net \cup Emit(n, out)
       /\ ev' = Event("heartbeat", n, None, NoPkt, out)
    /\ UNCHANGED <<running, sock_open, alive, neighbors, routing_table, sequence_num,
                   delivered_messages, inbox, callbacks, sends, lifeVars>>

\* send_message(dest_id, payload, ttl)
SendMessage(n, dest, payload, ttl) ==
    /\ UNCHANGED chatVars
    /\ budget > 0
    /\ budget' = budget - 1
    /\ sequence_num' = [sequence_num EXCEPT ![n] = @ + 1]
    /\ LET m == MsgId(n, sequence_num[n] + 1)
           pkt == DataPkt(m, n, dest, ttl, payload)
           out == SendTargets(routing_table[n], neighbors[n], pkt)
       IN /\ net' = net \cup Emit(n, out)
          /\ sends' = sends \cup {[msg_id |-> m, node |-> n, dest |-> dest,
                                    ttl |-> ttl, payload |-> payload]}
          /\ ev' = Event("send", n, None, pkt, out)
    /\ UNCHANGED <<running, sock_open, alive, neighbors, routing_table,
                   delivered_messages, inbox, callbacks, lifeVars>>

----------------------------------------------------------------------------
(* Packet handling: _listen_loop, _handle_packet and the handlers.  `rest` is
   the network without the datagram being handled. *)

\* _handle_hello
HandleHello(n, from, pkt, rest) ==
    IF pkt.node_id = None
    THEN /\ ev' = Event("hello", n, from, pkt, {})
         /\ net' = rest
         /\ UNCHANGED <<neighbors, routing_table>>
    ELSE LET out == HelloReply(n, from, pkt.node_id) IN
         /\ neighbors' = [neighbors EXCEPT ![n][pkt.node_id] = from]
         /\ routing_table' = [routing_table EXCEPT ![n][pkt.node_id] = pkt.node_id]
         /\ net' = rest \cup Emit(n, out)
         /\ ev' = Event("hello", n, from, pkt, out)

\* an exception of on_message leaves _handle_data
CallbackEscapesUncaught(raised) == raised

\* lines 142-146: on_message is called inside `try: ... except Exception: pass`.
\* `raised` says that the callback raised an exception of class Exception (the
\* class the handler names); such an exception never leaves _handle_data
CallbackEscapes(raised) == FALSE

\* _handle_data
HandleData(n, from, pkt, rest) ==
    IF pkt.msg_id = NoId
    THEN \* no msg_id: return
         /\ ev' = Event("data", n, from, pkt, {})
         /\ net' = rest
         /\ UNCHANGED <<alive, routing_table, delivered_messages, inbox, callbacks>>
    ELSE IF IsDuplicate(delivered_messages[n], pkt.msg_id)
    THEN \* duplicate suppression
         /\ ev' = [Event("data", n, from, pkt, {}) EXCEPT !.dup = TRUE]
         /\ net' = rest
         /\ UNCHANGED <<alive, routing_table, delivered_messages, inbox, callbacks>>
    ELSE
      /\ delivered_messages' = [delivered_messages EXCEPT ![n] = @ \cup {pkt.msg_id}]
      /\ IF ~pkt.ttl_ok
         THEN \* int(ttl) raises: the exception leaves _listen_loop and ends its thread
              /\ alive' = [alive EXCEPT ![n] = FALSE]
              /\ ev' = Event("crash", n, from, pkt, {})
              /\ net' = rest
              /\ UNCHANGED <<routing_table, inbox, callbacks>>
         ELSE LET rt == LearnReverse(routing_table[n], pkt) IN
              /\ routing_table' = [routing_table EXCEPT ![n] = rt]
              /\ IF pkt.dest = n
                 THEN \* deliver locally: the inbox entry, on_message (which returns
                      \* or raises), then the ACK toward the source
                      \E raised \in BOOLEAN :
                         /\ inbox' = [inbox EXCEPT ![n] = Append(@, Delivery(pkt))]
                         /\ callbacks' = [callbacks EXCEPT ![n] = Append(@, Delivery(pkt))]
                         /\ IF CallbackEscapes(raised)
                            THEN \* the exception leaves _listen_loop and ends its thread
                                 /\ alive' = [alive EXCEPT ![n] = FALSE]
                                 /\ net' = rest
                                 /\ ev' = [Event("crash", n, from, pkt, {}) EXCEPT
                                              !.delivered = TRUE, !.raised = raised]
                            ELSE LET out == AckTargets(n, rt, neighbors[n], pkt.source,
                                                       pkt.msg_id) IN
                                 /\ UNCHANGED alive
                                 /\ net' = rest \cup Emit(n, out)
                                 /\ ev' = [Event("data", n, from, pkt, out) EXCEPT
                                              !.delivered = TRUE, !.raised = raised]
                 ELSE IF TtlExhausted(pkt.ttl)
                 THEN \* TTL exhausted
                      /\ ev' = Event("data", n, from, pkt, {})
                      /\ net' = rest
                      /\ UNCHANGED <<alive, inbox, callbacks>>
                 ELSE LET out == ForwardTargets(rt, neighbors[n], Relayed(n, pkt)) IN
                      /\ net' = rest \cup Emit(n, out)
                      /\ ev' = Event("relay", n, from, pkt, out)
                      /\ UNCHANGED <<alive, inbox, callbacks>>

\* one iteration of _listen_loop on a received datagram
HandleDatagram(n, from, pkt, rest) ==
    /\ running[n] /\ alive[n] /\ sock_open[n]
    /\ UNCHANGED <<running, sock_open, sequence_num, sends, lifeVars>>
    /\ UNCHANGED chatVars
    /\ IF pkt.form \in {"not_utf8", "not_json"}
       THEN \* json.loads(data.decode("utf-8")) raises: continue
            /\ ev' = Event("undecodable", n, from, pkt, {})
            /\ net' = rest
            /\ UNCHANGED <<alive, neighbors, routing_table, delivered_messages,
                           inbox, callbacks>>
       ELSE IF pkt.form = "non_object"
       THEN \* packet.get raises AttributeError outside any try: the thread ends
            /\ alive' = [alive EXCEPT ![n] = FALSE]
            /\ ev' = Event("crash", n, from, pkt, {})
            /\ net' = rest
            /\ UNCHANGED <<neighbors, routing_table, delivered_messages, inbox, callbacks>>
       ELSE IF pkt.type = "HELLO"
       THEN /\ HandleHello(n, from, pkt, rest)
            /\ UNCHANGED <<alive, delivered_messages, inbox, callbacks>>
       ELSE IF pkt.type = "DATA"
       THEN /\ HandleData(n, from, pkt, rest)
            /\ UNCHANGED neighbors
       ELSE IF pkt.type = "ACK"
       THEN \* the ACK branch of _handle_packet
            LET out == AckEffect(routing_table[n], neighbors[n], pkt) IN
            /\ ev' = Event("ignored", n, from, pkt, out)
            /\ net' = rest \cup Emit(n, out)
            /\ UNCHANGED <<alive, neighbors, routing_table, delivered_messages,
                           inbox, callbacks>>
       ELSE \* a type the node does not know: nothing
            /\ ev' = Event("ignored", n, from, pkt, {})
            /\ net' = rest
            /\ UNCHANGED <<alive, neighbors, routing_table, delivered_messages,
                           inbox, callbacks>>

\* a datagram in flight arrives and is consumed
Receive(d) ==
    /\ d \in net
    /\ HandleDatagram(d.to, d.from, d.pkt, net \ {d})
    /\ UNCHANGED budget

----------------------------------------------------------------------------
(* Spec: one running node, B, in an environment that may send it any datagram
   from any address, any number of times and in any order, and call its API.
   The sockets of A and C are closed, so what B sends them leaves the model. *)

Tested == "B"

\* the contents of the datagrams of the environment
EnvHello == {<<AddrOf(i), HelloPkt(i)>> : i \in Ids} \cup
            {<<Foreign, HelloPkt(None)>>, <<Foreign, HelloPkt("A")>>}
EnvOther == {<<Foreign, Garbage(f)>> : f \in {"not_utf8", "not_json", "non_object"}} \cup
            {<<Foreign, [NoPkt EXCEPT !.type = "OTHER"]>>, <<"A", AckPkt(MsgId("B", 1), "A", "B")>>}
EnvMsgIds == {MsgId("A", 1), MsgId("B", 1)}
\* a relayed copy comes from its previous hop, an original from its source
SenderOf(pkt) ==
    IF pkt.prev_hop # None THEN AddrOf(pkt.prev_hop)
    ELSE IF pkt.source # None THEN AddrOf(pkt.source) ELSE Foreign
EnvData ==
    LET pkts == {[DataPkt(m, s, d, t, "p") EXCEPT !.prev_hop = h] :
                    m \in EnvMsgIds, s \in {"A", "B", "C"}, d \in {"B", "C"},
                    t \in TTLs, h \in {None, "A"}}
        odd == {DataPkt(NoId, "A", "B", 1, "p"),
                DataPkt(MsgId("A", 1), None, "B", 1, "p"),
                [DataPkt(MsgId("A", 1), "C", "B", 1, "p") EXCEPT !.ttl_ok = FALSE,
                                                                   !.prev_hop = "A"]}
    IN {<<SenderOf(p), p>> : p \in {q \in pkts : q.source \in {"C", q.msg_id[1]}} \cup odd}
EnvDatagrams == EnvHello \cup EnvOther \cup EnvData

\* a datagram of the environment arrives
Arrive(n, from, pkt) ==
    /\ budget > 0
    /\ budget' = budget - 1
    /\ HandleDatagram(n, from, pkt, net)

Init == Wired({Tested}, {}, MaxOps)

Next ==
    \/ \E i \in Ids : AddStaticNeighbor(Tested, i, AddrOf(i))
    \/ \E a \in Node : ConnectToPeer(Tested, a)
    \/ Heartbeat(Tested)
    \/ \E dest \in Node \ {Tested}, p \in Payload, ttl \in TTLs :
          SendMessage(Tested, dest, p, ttl)
    \/ \E e \in EnvDatagrams : Arrive(Tested, e[1], e[2])
    \/ \E d \in net : Receive(d)

Spec == Init /\ [][Next]_vars

----------------------------------------------------------------------------
(* Claims about one node in any environment (Spec). *)

\* the positions of the entries of a log that carry msg_id m
EntriesFor(log, m) == {k \in DOMAIN log : log[k].id = m}

\* C1: for every node and every msg_id, whatever DATA packets arrive (duplicates
\* and looped copies included), the inbox holds at most one entry with that
\* msg_id and on_message was invoked at most once for it.
C1_DeliveredAtMostOnce ==
    \A n \in Node :
        /\ \A k \in DOMAIN inbox[n] : EntriesFor(inbox[n], inbox[n][k].id) = {k}
        /\ \A k \in DOMAIN callbacks[n] :
              EntriesFor(callbacks[n], callbacks[n][k].id) = {k}

\* a second copy of a delivered message, addressed to the node, has just arrived
C1_Witness ==
    /\ ev.op = "data" /\ ev.dup /\ ev.pkt.dest = ev.node
    /\ EntriesFor(inbox[ev.node], ev.pkt.msg_id) # {}
    /\ EntriesFor(callbacks[ev.node], ev.pkt.msg_id) # {}

\* C2: every copy a node relays carries a ttl exactly one less than the ttl of
\* the packet received, and a fresh DATA packet that arrives with ttl 0 at a node
\* that is not its destination is neither re-emitted nor delivered there.
C2_TtlDecrementAndDrop ==
    /\ ev.op = "relay" =>
          \A t \in ev.out : t.pkt.type = "DATA" /\ t.pkt.ttl = ev.pkt.ttl - 1
    /\ (ev.pkt.type = "DATA" /\ ev.op \in {"data", "relay"}
           /\ ev.pkt.ttl = 0 /\ ev.pkt.dest # ev.node) =>
          /\ ev.op = "data" /\ ev.out = {} /\ ~ev.delivered
          /\ (~ev.dup /\ ev.pkt.msg_id # NoId) =>
                 EntriesFor(inbox[ev.node], ev.pkt.msg_id) = {}

\* a node with a neighbour has relayed a packet
C2_Witness == ev.op = "relay" /\ ev.out # {} /\ ev.pkt.ttl = MaxTTL

\* C7: once a node has processed a fresh DATA packet (one with a msg_id and an
\* integer ttl) that names a source S and a prev_hop H, its routing_table[S] is H,
\* whatever route to S it held before.
C7_ReverseRouteLearnt ==
    (ev.op \in {"data", "relay"} /\ ev.pkt.type = "DATA" /\ ~ev.dup
        /\ ev.pkt.msg_id # NoId /\ ev.pkt.source # None /\ ev.pkt.prev_hop # None) =>
       routing_table[ev.node][ev.pkt.source] = ev.pkt.prev_hop

\* the source was a direct neighbour (route S -> S) and the packet came through
\* another hop: the direct route has been overwritten
C7_Witness ==
    /\ ev.op \in {"data", "relay"} /\ ~ev.dup /\ ev.pkt.msg_id # NoId
    /\ ev.pkt.source # None /\ ev.pkt.prev_hop # None
    /\ ev.pkt.prev_hop # ev.pkt.source
    /\ neighbors[ev.node][ev.pkt.source] # None
    /\ routing_table[ev.node][ev.pkt.source] = ev.pkt.prev_hop

\* whether the node of the last step holds a route for the packet's destination
\* whose next hop is a key of its neighbours table
C6_Routed ==
    /\ ev.pkt.dest \in Ids
    /\ routing_table[ev.node][ev.pkt.dest] # None
    /\ neighbors[ev.node][routing_table[ev.node][ev.pkt.dest]] # None

\* the neighbours entries the last step transmitted for
C6_Reached == {t.nbr : t \in ev.out}

C6_Unicast ==
    LET hop == routing_table[ev.node][ev.pkt.dest] IN
    /\ Cardinality(ev.out) = 1
    /\ \A t \in ev.out : t.nbr = hop /\ t.addr = neighbors[ev.node][hop]

\* C5 (as claimed): a node that relays a DATA packet by flooding transmits no
\* copy to the address it has just received the packet from.
C5_NoBounceBack ==
    (ev.op = "relay" /\ ~C6_Routed) => \A t \in ev.out : t.addr # ev.from

C8_NextHopIsNeighbor ==
    \A n \in Node : \A d \in Ids :
        routing_table[n][d] # None => neighbors[n][routing_table[n][d]] # None

\* C9 (as claimed): whatever datagrams a running node has received, its receive
\* loop is alive.
C9_ListenLoopSurvives ==
    \A n \in Node : (running[n] /\ sock_open[n]) => alive[n]

----------------------------------------------------------------------------
(* SpecChain: the three nodes of tests/test_simulation.py, all running, wired
   as the chain A - B - C with the hello exchange complete.  No datagram is
   lost: one in flight stays in flight until its addressee receives it, and a
   running receive loop receives every datagram queued on its socket. *)

InitChain == Wired(Node, Chain, MaxChainOps)

NextChain ==
    \/ \E p \in Payload, ttl \in TTLs : SendMessage("A", "C", p, ttl)
    \/ \E p \in Payload, ttl \in TTLs : SendMessage("C", "A", p, ttl)
    \/ \E n \in Node : Heartbeat(n)
    \/ \E d \in net : Receive(d)

\* _listen_loop takes the datagrams of its socket in turn
ReceiveAt(n, type) == \E d \in net : d.to = n /\ d.pkt.type = type /\ Receive(d)

SpecChain ==
    /\ InitChain /\ [][NextChain]_vars
    /\ \A n \in Node : WF_vars(ReceiveAt(n, "DATA"))

\* the call A.send_message("C", p, ttl) that made message <<"A", k>>
SentAC(k, p, ttl) ==
    [msg_id |-> MsgId("A", k), node |-> "A", dest |-> "C", ttl |-> ttl, payload |-> p]

\* the entries of C's inbox for message <<"A", k>> with payload p
InboxAC(k, p) ==
    {i \in DOMAIN inbox["C"] :
        inbox["C"][i].id = MsgId("A", k) /\ inbox["C"][i].payload = p}

\* C3: in the chain, after A.send_message("C", p, ttl) with ttl >= 2, C's inbox
\* eventually holds exactly one entry for that message, with payload p, and never
\* more than one; and the copy C delivers carries ttl - 1.
C3_ChainDelivers ==
    \A k \in 1..MaxChainOps : \A p \in Payload : \A ttl \in {t \in TTLs : t >= 2} :
        /\ (SentAC(k, p, ttl) \in sends) ~> (Cardinality(InboxAC(k, p)) = 1)
        /\ [](SentAC(k, p, ttl) \in sends =>
                 /\ Cardinality(InboxAC(k, p)) <= 1
                 /\ (ev.op = "data" /\ ev.node = "C" /\ ev.delivered
                        /\ ev.pkt.msg_id = MsgId("A", k)) => ev.pkt.ttl = ttl - 1)

\* C has just delivered a message that A sent it with ttl >= 2
C3_Witness ==
    \E s \in sends :
        /\ s.node = "A" /\ s.dest = "C" /\ s.ttl >= 2
        /\ ev.op = "data" /\ ev.node = "C" /\ ev.delivered /\ ev.pkt.msg_id = s.msg_id
        /\ Cardinality(EntriesFor(inbox["C"], s.msg_id)) = 1

\* C4: in the chain, C's inbox never holds an entry for a message that A sent
\* to C with ttl 0.
C4_TtlZeroNeverArrives ==
    \A s \in sends :
        (s.node = "A" /\ s.dest = "C" /\ s.ttl = 0) =>
            EntriesFor(inbox["C"], s.msg_id) = {}

\* B has received and dropped a message that A sent to C with ttl 0
C4_Witness ==
    \E s \in sends :
        /\ s.node = "A" /\ s.dest = "C" /\ s.ttl = 0
        /\ ev.op = "data" /\ ev.node = "B" /\ ev.pkt.msg_id = s.msg_id /\ ~ev.dup
        /\ net = {}

----------------------------------------------------------------------------
(* SpecChat: the node of mesh_chat.py handling MESSAGE packets. *)

\* _handle_message for a packet with msg_id m and the given ttl, addressed to
\* this node (to_me) or to another
HandleChatMessage(m, to_me, ttl) ==
    /\ UNCHANGED <<meshVars, peerVars, threadVars, variantVars, callerVars>>
    /\ IF InCache(message_ids_seen, m)
       THEN \* duplicate detection
            /\ chat_ev' = [NoChatEv EXCEPT !.id = m, !.dup = TRUE]
            /\ UNCHANGED message_ids_seen
       ELSE LET added == CacheAdd(message_ids_seen, m) IN
            \E c \in Truncations(added) :
               /\ message_ids_seen' = c
               /\ chat_ev' = [NoChatEv EXCEPT
                                !.id = m,
                                !.truncated = (added.size > CacheLimit),
                                !.delivered = to_me,
                                !.out = IF ~to_me /\ ttl > 0 THEN {ttl - 1} ELSE {}]

InitChat == Wired({}, {}, 0)

NextChat ==
    \E m \in Tracked \cup {Fresh}, to_me \in BOOLEAN, ttl \in {0, 1} :
        HandleChatMessage(m, to_me, ttl)

SpecChat == InitChat /\ [][NextChat]_vars

\* C10: after every handled MESSAGE the dedup cache holds at most 1000 ids.
C10_CacheBounded == message_ids_seen.size <= CacheLimit

\* the message just handled brought the cache over its limit and it was cut
C10_Witness ==
    /\ chat_ev.truncated
    /\ message_ids_seen.size = CacheKeep

\* C11 (as claimed): right after a MESSAGE with a msg_id that was not in the
\* cache has been handled, that msg_id is in the cache, also when handling it
\* cut the cache.
C11_FreshIdRetained ==
    (chat_ev.id \in Tracked /\ ~chat_ev.dup) => InCache(message_ids_seen, chat_ev.id)

----------------------------------------------------------------------------
(* SpecPeers: the node of mesh_chat.py, started at time 0, handling HELLO
   packets while its _cleanup_loop sweeps the peer table.  Time is counted in
   whole seconds.  time.sleep(5) lasts at least SweepSleep seconds and at most
   MaxLag more; the sweep reads the clock, then takes the lock. *)

\* _handle_hello for a HELLO that carries node_id p
HandleChatHello(p) ==
    /\ UNCHANGED <<meshVars, cacheVars, threadVars, variantVars, callerVars>>
    /\ UNCHANGED <<now, cleanup_pc, slept_from, cleanup_now>>
    /\ IF p = None \/ p = ChatNode
       THEN /\ peer_ev' = [NoPeerEv EXCEPT !.op = "ignored", !.id = p]
            /\ UNCHANGED <<chat_peers, chat_routing_table, heard>>
       ELSE /\ chat_peers' = Upsert(chat_peers, p, now)
            /\ chat_routing_table' = [chat_routing_table EXCEPT ![p] = p]
            /\ heard' = [heard EXCEPT ![p] = now]
            /\ peer_ev' = [NoPeerEv EXCEPT
                              !.op = "hello", !.id = p,
                              !.known = (chat_peers[p] # Absent),
                              !.notified = HelloNotifications(chat_peers[p] # Absent)]

\* _cleanup_loop: time.sleep(5) returns and the clock is read
CleanupWake ==
    /\ UNCHANGED <<meshVars, cacheVars, threadVars, variantVars, callerVars>>
    /\ cleanup_pc = "sleep"
    /\ now >= slept_from + SweepSleep
    /\ cleanup_pc' = "woken"
    /\ cleanup_now' = now
    /\ peer_ev' = [NoPeerEv EXCEPT !.op = "wake"]
    /\ UNCHANGED <<now, chat_peers, chat_routing_table, slept_from, heard>>

\* _cleanup_loop: the sweep under the lock, then the next sleep begins
CleanupSweep ==
    /\ UNCHANGED <<meshVars, cacheVars, threadVars, variantVars, callerVars>>
    /\ cleanup_pc = "woken"
    /\ LET stale == StalePeers(chat_peers, cleanup_now) IN
       /\ chat_peers' = [p \in ChatPeers |-> IF p \in stale THEN Absent ELSE chat_peers[p]]
       /\ chat_routing_table' =
             [p \in ChatPeers |-> IF p \in stale THEN None ELSE chat_routing_table[p]]
       /\ peer_ev' = [NoPeerEv EXCEPT !.op = "sweep", !.removed = stale,
                                     !.notified = SweepNotifications(stale)]
    /\ cleanup_pc' = "sleep"
    /\ slept_from' = now
    /\ UNCHANGED <<now, cleanup_now, heard>>

\* a second passes: not while a sweep is under way, and not beyond the latest
\* return of time.sleep
Tick ==
    /\ UNCHANGED <<meshVars, cacheVars, threadVars, variantVars, callerVars>>
    /\ now < MaxTime
    /\ cleanup_pc = "sleep"
    /\ now < slept_from + SweepSleep + MaxLag
    /\ now' = now + 1
    /\ peer_ev' = [NoPeerEv EXCEPT !.op = "tick"]
    /\ UNCHANGED <<chat_peers, chat_routing_table, cleanup_pc, slept_from, cleanup_now, heard>>

InitPeers == Wired({}, {}, 0)

NextPeers ==
    \/ \E p \in ChatPeers \cup {ChatNode, None} : HandleChatHello(p)
    \/ CleanupWake
    \/ CleanupSweep
    \/ Tick

SpecPeers == InitPeers /\ [][NextPeers]_vars

\* whether peer p is out of the peer table and no route goes through it
C13_Gone(p) ==
    /\ p \notin GetActivePeers(chat_peers)
    /\ \A d \in ChatPeers : chat_routing_table[d] # p

\* C12: a handled HELLO that carries a node_id P other than the node's own
\* puts P in get_active_peers(), and P leaves the peer table only in a sweep
\* that observed now - last_seen(P) > 15.
C12_PeerListedUntilStale ==
    /\ [](peer_ev.op = "hello" => peer_ev.id \in GetActivePeers(chat_peers))
    /\ [][\A p \in ChatPeers :
            (p \in GetActivePeers(chat_peers) /\ p \notin GetActivePeers(chat_peers')) =>
               /\ peer_ev'.op = "sweep"
               /\ cleanup_now - chat_peers[p] > StaleAfter]_vars

\* a sweep has evicted the stale B and kept C, heard more recently
C12_Witness ==
    /\ peer_ev.op = "sweep" /\ peer_ev.removed = {"B"}
    /\ "C" \in GetActivePeers(chat_peers)

\* C13 (as claimed): when the last HELLO of B was handled at time t, then at
\* every time from t + 15 + 5 on B is not in the peer table and no
\* routing_table entry has B as next hop.
C13_GoneAfterWindow ==
    \A p \in ChatPeers :
        (heard[p] # Absent /\ now >= heard[p] + StaleAfter + SweepSleep) => C13_Gone(p)

\* C13 (amended): when the last HELLO of B was handled at time t, the first
\* sweep that reads the clock later than t + 15 removes B and its route; that
\* sweep comes at most 5 s plus the delay of time.sleep after the one before, so
\* B is gone at every time later than t + 15 + 5 + that delay.
C13_GoneAfterSweep ==
    \A p \in ChatPeers :
        /\ (peer_ev.op = "sweep" /\ heard[p] # Absent
               /\ cleanup_now - heard[p] > StaleAfter) => C13_Gone(p)
        /\ (heard[p] # Absent
               /\ now > heard[p] + StaleAfter + SweepSleep + MaxLag) => C13_Gone(p)

\* B has been evicted at the latest moment: a sweep read the clock exactly 15 s
\* after B's last HELLO, and the next sweep came with the longest delay
C13_Witness ==
    /\ peer_ev.op = "sweep" /\ "B" \in peer_ev.removed
    /\ now = heard["B"] + StaleAfter + SweepSleep + MaxLag

\* C14: a HELLO of a known peer refreshes its last_seen, and a peer whose last
\* HELLO was handled at most 15 s ago is in the peer table: no sweep evicts a
\* peer whose HELLOs are handled at gaps of at most 15 s.
C14_RefreshedPeerKept ==
    /\ peer_ev.op = "hello" => chat_peers[peer_ev.id] = now
    /\ \A p \in ChatPeers :
          (heard[p] # Absent /\ now - heard[p] <= StaleAfter) =>
             p \in GetActivePeers(chat_peers)

\* a sweep later than 15 s after the start has evicted C and spared B, whose
\* HELLO is recent
C14_Witness ==
    /\ peer_ev.op = "sweep" /\ cleanup_now > StaleAfter
    /\ peer_ev.removed = {"C"}
    /\ "B" \in GetActivePeers(chat_peers)
    /\ heard["B"] > heard["C"] + StaleAfter

----------------------------------------------------------------------------
(* SpecLife: the life cycle of one node, constructed and not yet started.
   Callers start and stop it in any order; a thread that can take a step
   eventually takes it. *)

\* the datagrams that arrive: a HELLO, a message for the node, and JSON that is
\* not an object
EnvLife == {<<"A", HelloPkt("A")>>,
            <<"A", DataPkt(MsgId("A", 1), "A", Tested, 1, "p")>>,
            <<Foreign, Garbage("non_object")>>}

InitLife == Built({}, {Tested}, {}, MaxLifeOps)

NextLife ==
    \/ Start(Tested)
    \/ Stop(Tested)
    \/ StopJoinListen(Tested)
    \/ StopJoinHb(Tested)
    \/ ListenExit(Tested)
    \/ HeartbeatExit(Tested)
    \/ Heartbeat(Tested)
    \/ \E e \in EnvLife : Arrive(Tested, e[1], e[2])

\* get_inbox()
GetInbox(n) ==
    /\ UNCHANGED <<meshButEv, cacheVars, peerVars, threadVars, variantVars>>
    /\ got' = [alias |-> GetInboxAliases, items |-> inbox[n]]
    /\ ev' = Event("get_inbox", n, None, NoPkt, {})

\* the caller of get_inbox() removes the first item of the list it was given
CallerMutates(n) ==
    /\ UNCHANGED <<cacheVars, peerVars, threadVars, variantVars>>
    /\ got.items # <<>>
    /\ got' = [got EXCEPT !.items = Tail(@)]
    /\ inbox' = IF got.alias THEN [inbox EXCEPT ![n] = Tail(got.items)] ELSE inbox
    /\ ev' = Event("mutate", n, None, NoPkt, {})
    /\ UNCHANGED <<running, sock_open, alive, neighbors, routing_table, sequence_num,
                   delivered_messages, callbacks, net, sends, budget, lifeVars>>

SpecLife ==
    /\ InitLife /\ [][NextLife]_vars
    /\ WF_vars(StopJoinListen(Tested)) /\ WF_vars(StopJoinHb(Tested))
    /\ WF_vars(ListenExit(Tested)) /\ WF_vars(HeartbeatExit(Tested))

\* the state of a node that callers and peers can observe, and its threads
C15_NodeState ==
    <<running, sock_open, alive, hb_alive, threads, stop_pc, neighbors, routing_table,
      sequence_num, delivered_messages, inbox, callbacks, net>>

\* C15: start() on a node whose running flag is set changes nothing of the
\* node and starts no thread; the threads started for the receive loop and for
\* the heartbeat loop are one each per start() that found the flag cleared.
C15_StartWhenRunningNoOp ==
    /\ [][(ev'.op = "start" /\ running[Tested]) => UNCHANGED C15_NodeState]_vars
    /\ [][threads'[Tested] # threads[Tested] =>
            /\ ev'.op = "start" /\ ~running[Tested]
            /\ threads'[Tested] = threads[Tested] + 1]_vars

\* start() has been called on the running node, which has one thread per loop
C15_Witness ==
    /\ ev.op = "start" /\ ev.was_running
    /\ running[Tested] /\ alive[Tested] /\ hb_alive[Tested] /\ threads[Tested] = 1

\* C16 (as claimed): stop() on a node whose running flag is cleared leaves the
\* node as it was, its socket included.
C16_StopWhenStoppedNoOp ==
    (ev.op = "stop" /\ ~ev.was_running) => sock_open[ev.node] = ev.was_open

\* C17: a stop() that has begun returns, whatever the loops do; it leaves the
\* running flag cleared; and after it the receive loop ends.
C17_StopTerminates ==
    /\ (stop_pc[Tested] # "idle") ~> (stop_pc[Tested] = "idle")
    /\ [](ev.op = "stop" => ~running[Tested] /\ ~sock_open[Tested])
    /\ (ev.op = "stop") ~> ~alive[Tested]

\* stop() has returned while the heartbeat loop it joined had not ended
C17_Witness ==
    /\ ev.op = "stopped" /\ stop_pc[Tested] = "idle"
    /\ ~running[Tested] /\ hb_alive[Tested] /\ ~alive[Tested]

----------------------------------------------------------------------------
(* SpecThreads: the threads of one running node of mesh_node.py, each
   executing its methods instruction by instruction, in any interleaving. *)

\* what the threads leave alone
meshButCounter ==
    <<running, sock_open, alive, neighbors, routing_table, delivered_messages, inbox,
      callbacks, net, sends, budget, ev, lifeVars>>

\* thread t begins to execute method op
Begin(t, op) ==
    /\ UNCHANGED <<meshVars, cacheVars, peerVars, variantVars, callerVars>>
    /\ t_op[t] = "idle"
    /\ started < MaxThreadOps
    /\ started' = started + 1
    /\ t_op' = [t_op EXCEPT ![t] = op]
    /\ t_pc' = [t_pc EXCEPT ![t] = 1]
    /\ thread_ev' = [NoThreadEv EXCEPT !.thread = t, !.op = op, !.k = "begin"]
    /\ UNCHANGED <<lock, t_reg, made>>

\* thread t executes the next instruction of its method
Step(t) ==
    /\ UNCHANGED <<meshButCounter, cacheVars, peerVars, variantVars, callerVars, started>>
    /\ t_op[t] # "idle"
    /\ LET prog == Program(t_op[t])
           ins == prog[t_pc[t]]
       IN /\ ins.k = "acquire" => lock = None
          /\ lock' = CASE ins.k = "acquire" -> t
                        [] ins.k = "release" -> None
                        [] OTHER -> lock
          /\ t_reg' = IF ins.k = "load"
                      THEN [t_reg EXCEPT ![t] = sequence_num[Tested]] ELSE t_reg
          /\ sequence_num' = IF ins.k = "store"
                             THEN [sequence_num EXCEPT ![Tested] = t_reg[t] + 1]
                             ELSE sequence_num
          /\ made' = IF ins.k = "make_id" THEN Append(made, sequence_num[Tested]) ELSE made
          /\ thread_ev' = [thread |-> t, op |-> t_op[t], k |-> ins.k, v |-> ins.v,
                           held |-> (lock = t)]
          /\ IF t_pc[t] = Len(prog)
             THEN /\ t_op' = [t_op EXCEPT ![t] = "idle"]
                  /\ t_pc' = [t_pc EXCEPT ![t] = 1]
             ELSE /\ t_pc' = [t_pc EXCEPT ![t] = @ + 1]
                  /\ UNCHANGED t_op

InitThreads == Wired({Tested}, {}, 0)

NextThreads ==
    \/ \E t \in Thread : \E op \in OpsOf(t) : Begin(t, op)
    \/ \E t \in Thread : Step(t)

SpecThreads == InitThreads /\ [][NextThreads]_vars

\* C18 (as claimed): the counters embedded in the msg_ids a node makes are
\* strictly increasing in the order the ids are made, so none repeats, also when
\* send_message is called from several threads at once.
C18_CounterStrictlyIncreasing ==
    \A i, j \in DOMAIN made : i < j => made[i] < made[j]

\* C19 (as claimed): a thread that reads or writes the neighbours table, the
\* routing table, the dedup cache or the inbox holds the node's lock.
C19_TablesUnderLock ==
    (thread_ev.k \in {"read", "write"} /\ thread_ev.v \in Guarded) => thread_ev.held

\* C20: a thread that sends on the socket does not hold the node's lock.
C20_NoSendUnderLock ==
    thread_ev.k = "send" => (~thread_ev.held /\ lock # thread_ev.thread)

\* the receive thread has sent its HELLO reply while another thread was inside
\* the lock
C20_Witness ==
    /\ thread_ev.k = "send" /\ thread_ev.thread = "listen" /\ thread_ev.op = "handle_hello"
    /\ lock \in Thread \ {"listen"}

----------------------------------------------------------------------------
(* SpecWeb: the threads of the node of web_mesh_chat.py, with one callback
   registered, each executing its methods instruction by instruction.  A
   thread that can execute its next instruction eventually does. *)

InitWeb == Wired({}, {}, 0)

NextWeb ==
    \/ \E t \in Thread : \E op \in WebOpsOf(t) : Begin(t, op)
    \/ \E t \in Thread : Step(t)

SpecWeb ==
    /\ InitWeb /\ [][NextWeb]_vars
    /\ \A t \in Thread : WF_vars(Step(t))

\* C21 (as claimed): every call of get_peers() returns, and the sweep loop
\* releases the lock it has taken, also in a sweep that evicts a peer while a
\* callback is registered.
C21_GetPeersReturns ==
    /\ \A t \in Thread : (t_op[t] = "web_get_peers") ~> (t_op[t] = "idle")
    /\ (lock = "cleanup") ~> (lock # "cleanup")

----------------------------------------------------------------------------
(* Claims about the observer of the peer table of mesh_chat.py (SpecPeers);
   on_peers_update is registered. *)

\* C22: a sweep that evicts one or more peers calls the peer-change observer
\* exactly once, and a sweep that evicts none does not call it.
C22_SweepNotifiesOnce ==
    peer_ev.op = "sweep" =>
       peer_ev.notified = (IF peer_ev.removed # {} THEN 1 ELSE 0)

\* a sweep has evicted two peers and called the observer once
C22_Witness ==
    /\ peer_ev.op = "sweep" /\ peer_ev.removed = {"B", "C"}
    /\ peer_ev.notified = 1

\* C23 (as claimed): a handled HELLO calls the peer-change observer once when
\* the announcing peer was not in the peer table, and not at all when it was.
C23_HelloNotifiesIffNew ==
    peer_ev.op = "hello" =>
       peer_ev.notified = (IF peer_ev.known THEN 0 ELSE 1)

----------------------------------------------------------------------------
(* Claims about the frame of single operations of a node (Spec). *)

\* C24: connect_to_peer calls _send exactly once, with a HELLO that carries the
\* node's own id, for the address given, and leaves neighbors, routing_table, the
\* dedup set, the inbox and the rest of the node as they were; an identity enters
\* the neighbours table only in the step that handles a HELLO naming it (or in
\* add_static_neighbor).
C24_ConnectOnlySendsHello ==
    /\ ev.op = "connect" =>
          /\ \E a \in Addr :
                ev.out = {Tx(None, a, [NoPkt EXCEPT !.type = "HELLO",
                                                    !.node_id = ev.node])}
          /\ StateOf(ev.node) = ev.pre
    /\ ev.op # "init" =>
          \A i \in Ids :
             (ev.pre.neighbors[i] = None /\ neighbors[ev.node][i] # None) =>
                \/ ev.op = "static"
                \/ ev.op = "hello" /\ ev.pkt.node_id = i

\* the node has called connect_to_peer and has no neighbour
C24_Witness ==
    /\ ev.op = "connect" /\ ev.out # {}
    /\ NeighborIds(neighbors[ev.node]) = {}

\* the neighbours entries a step has transmitted for
C26_AckedTo == {t.nbr : t \in ev.out}

\* the last step handled a fresh DATA packet addressed to the handling node
C26_FreshForMe ==
    /\ ev.op \in {"data", "relay"} /\ ev.pkt.type = "DATA" /\ ~ev.dup
    /\ ev.pkt.msg_id # NoId /\ ev.pkt.dest = ev.node

\* the inbox entry and the callback of the last step, and their order in the code
C26_Delivered ==
    /\ ev.delivered /\ ev.op = "data"
    /\ Len(inbox[ev.node]) > 0
    /\ inbox[ev.node][Len(inbox[ev.node])] =
          [from |-> ev.pkt.source, id |-> ev.pkt.msg_id, payload |-> ev.pkt.payload]
    /\ Cardinality(EntriesFor(inbox[ev.node], ev.pkt.msg_id)) = 1
    /\ Cardinality(EntriesFor(callbacks[ev.node], ev.pkt.msg_id)) = 1
    /\ \A t \in ev.out : t.pkt = AckPkt(ev.pkt.msg_id, ev.node, ev.pkt.source)
    /\ \E i \in DOMAIN DeliverProgram :
          /\ DeliverProgram[i] = WriteOf("inbox")
          /\ \E j \in DOMAIN DeliverProgram :
                /\ i < j
                /\ DeliverProgram[j] = Instr("call", "on_message")
                /\ \E k \in DOMAIN DeliverProgram :
                      j < k /\ DeliverProgram[k] = SendTo

\* C26 (as claimed): a node that handles a fresh DATA packet addressed to it
\* appends one inbox entry, calls on_message, then emits one ACK for the msg_id
\* addressed to the packet's source; it forwards nothing, whatever the ttl.
C26_DeliversAndAcksOnce ==
    C26_FreshForMe => (C26_Delivered /\ Cardinality(ev.out) = 1)

\* C26 (amended): a node that handles a fresh DATA packet addressed to it appends
\* one inbox entry, calls on_message, then sends ACKs for the msg_id addressed to
\* the packet's source and nothing else, whatever the ttl: no ACK when the packet
\* names no source, one to the next hop of a usable route to the source, else one
\* to the source when it is a neighbour, else one copy to every neighbour.
C26_DeliversAndAcksBestEffort ==
    C26_FreshForMe =>
       /\ C26_Delivered
       /\ Cardinality(ev.out) = Cardinality(C26_AckedTo)
       /\ LET src == ev.pkt.source
              nb == NeighborIds(neighbors[ev.node])
              hop == routing_table[ev.node][src]
          IN C26_AckedTo =
                IF src = None THEN {}
                ELSE IF hop # None /\ hop \in nb THEN {hop}
                ELSE IF src \in nb THEN {src}
                ELSE nb

\* a packet that arrived with ttl 0 has been delivered and acknowledged with one ACK
C26_Witness ==
    /\ C26_FreshForMe /\ ev.delivered /\ ev.pkt.ttl = 0
    /\ Cardinality(ev.out) = 1

\* C27: the step that handles an ACK changes nothing of the node and calls _send
\* for nothing, and a DATA packet is transmitted only by the send_message call
\* that builds it or by the relay of a fresh copy that has just been received: no
\* step transmits one because an ACK is missing.
C27_AckChangesNothing ==
    /\ (ev.op = "ignored" /\ ev.pkt.type = "ACK") =>
          ev.out = {} /\ StateOf(ev.node) = ev.pre
    /\ \A t \in ev.out : t.pkt.type = "DATA" =>
          \/ /\ ev.op = "send"
             /\ t.pkt.msg_id = MsgId(ev.node, sequence_num[ev.node])
             /\ sequence_num[ev.node] = ev.pre.sequence_num + 1
          \/ /\ ev.op = "relay" /\ ev.pkt.type = "DATA"
             /\ t.pkt.msg_id = ev.pkt.msg_id
             /\ ev.pkt.msg_id \notin ev.pre.delivered_messages

\* a node that has neighbours handled an ACK addressed to another node
C27_Witness ==
    /\ ev.op = "ignored" /\ ev.pkt.type = "ACK"
    /\ NeighborIds(neighbors[ev.node]) # {}
    /\ ev.pkt.dest # ev.node

\* C29: send_message on a node whose neighbours table is empty calls _send for
\* nothing and changes nothing of the node but the sequence counter, which
\* advances by one.
C29_SendWithoutNeighborsIsSilent ==
    (ev.op = "send" /\ NeighborIds(ev.pre.neighbors) = {}) =>
       /\ ev.out = {}
       /\ StateOf(ev.node) = [ev.pre EXCEPT !.sequence_num = @ + 1]

\* a node without neighbours that holds a route to the destination has sent
C29_Witness ==
    /\ ev.op = "send" /\ NeighborIds(neighbors[ev.node]) = {}
    /\ routing_table[ev.node][ev.pkt.dest] # None
    /\ ev.out = {}

\* C30: the step that handles a DATA packet whose msg_id is already in the dedup
\* set leaves routing_table, inbox, neighbors, the dedup set and the rest of the
\* node as they were and transmits nothing, whatever the prev_hop and the ttl of
\* the duplicate.
C30_DuplicateChangesNothing ==
    (/\ ev.op \in {"data", "relay", "crash"} /\ ev.pkt.type = "DATA"
     /\ ev.pkt.msg_id # NoId
     /\ ev.pkt.msg_id \in ev.pre.delivered_messages) =>
       ev.out = {} /\ StateOf(ev.node) = ev.pre

\* a duplicate that names a prev_hop the route to its source does not go through,
\* with hops left, has been handled
C30_Witness ==
    /\ ev.op = "data" /\ ev.dup
    /\ ev.pkt.source # None /\ ev.pkt.prev_hop # None
    /\ routing_table[ev.node][ev.pkt.source] # ev.pkt.prev_hop
    /\ ev.pkt.ttl = MaxTTL /\ ev.pkt.dest # ev.node
    /\ NeighborIds(neighbors[ev.node]) # {}

----------------------------------------------------------------------------
(* SpecPair: two running nodes, A and B, that do not know each other, on a link
   that loses nothing.  A calls connect_to_peer with B's address and both send
   messages; B never calls connect_to_peer and no heartbeat round runs. *)

Pair == {"A", "B"}

InitPair == Wired(Pair, {}, MaxPairOps)

NextPair ==
    \/ ConnectToPeer("A", "B")
    \/ \E n \in Pair : \E dest \in Ids \ {n}, ttl \in {0, MaxTTL} :
          SendMessage(n, dest, "p", ttl)
    \/ \E d \in net : Receive(d)

SpecPair ==
    /\ InitPair /\ [][NextPair]_vars
    /\ \A n \in Pair : WF_vars(ReceiveAt(n, "HELLO"))

\* each of A and B has the other as a neighbour at its address, with a direct route
C25_Adjacent ==
    \A n \in Pair : \A m \in Pair \ {n} :
       neighbors[n][m] = m /\ routing_table[n][m] = m

\* C25: after A.connect_to_peer(address of B), with both nodes running and no
\* datagram lost, eventually each of A and B has the other in its neighbours
\* table with a direct route, although B calls no connect_to_peer and no
\* heartbeat round runs.
C25_HandshakeCompletes == (ev.op = "connect") ~> C25_Adjacent

\* the two nodes are neighbours of each other and B has only handled datagrams
C25_Witness ==
    /\ C25_Adjacent
    /\ ev.op = "hello" /\ ev.node = "A" /\ ev.pkt.node_id = "B"
    /\ sequence_num["B"] = 0

----------------------------------------------------------------------------
(* SpecChainAck: the chain, where every receive loop also takes the ACKs queued
   on its socket. *)

SpecChainAck == SpecChain /\ \A n \in Node : WF_vars(ReceiveAt(n, "ACK"))

\* C28 (as claimed): in the chain, once C's inbox holds a message that A sent to
\* C, A eventually receives the ACK that C emitted for it.
C28_AckReachesSource ==
    \A k \in 1..MaxChainOps :
       (EntriesFor(inbox["C"], MsgId("A", k)) # {}) ~>
          (/\ ev.node = "A" /\ ev.pkt.type = "ACK"
           /\ ev.pkt.msg_id = MsgId("A", k) /\ ev.pkt.source = "C")

----------------------------------------------------------------------------
(* Claims about the copies a node relays (Spec). *)

\* C31: every copy a node relays is the packet it received with two fields
\* rewritten, ttl and prev_hop: msg_id, source, dest, payload and every other
\* field are those of the packet received, and prev_hop is the relaying node's id.
C31_RelayRewritesTtlAndHop ==
    ev.op = "relay" =>
       \A t \in ev.out :
          /\ t.pkt = [ev.pkt EXCEPT !.ttl = t.pkt.ttl, !.prev_hop = t.pkt.prev_hop]
          /\ t.pkt.msg_id = ev.pkt.msg_id /\ t.pkt.source = ev.pkt.source
          /\ t.pkt.dest = ev.pkt.dest /\ t.pkt.payload = ev.pkt.payload
          /\ t.pkt.prev_hop = ev.node

\* a node has relayed a packet that came with another node's id as prev_hop
C31_Witness ==
    /\ ev.op = "relay" /\ ev.out # {}
    /\ ev.pkt.prev_hop # None /\ ev.pkt.prev_hop # ev.node

----------------------------------------------------------------------------
(* SpecVariants: three nodes in a row, A - B - C, all running the same broadcast
   program; A and C are out of each other's range.  Nothing is lost, and the
   HELLO exchange has filled the peer tables. *)

BcEmit(n, out, reach) == {[to |-> r, from |-> n, pkt |-> q] : r \in reach, q \in out}

\* send_message(to): packet_tracer_mesh.py lines 37-49, web_mesh_chat.py lines
\* 88-106, wifi_direct_termux.py lines 288-337
BcSend(n, to) ==
    /\ UNCHANGED <<meshVars, cacheVars, peerVars, threadVars, callerVars>>
    /\ bc_budget > 0
    /\ bc_budget' = bc_budget - 1
    /\ LET pkt == BcMessage(MsgId(n, MaxVariantOps - bc_budget + 1), n, to,
                            SendTtl(variant))
           reach == IF variant = "wifi" THEN WifiRecipients(bc_peers[n], to)
                    ELSE InRange(n)
           out == IF reach = {} THEN {} ELSE {pkt}
       IN /\ bc_net' = bc_net \cup BcEmit(n, out, reach)
          /\ bc_ev' = [NoBcEv EXCEPT !.op = "send", !.node = n, !.pkt = pkt,
                                     !.out = out, !.reach = reach]
    /\ UNCHANGED <<variant, bc_peers, bc_seen, bc_shown>>

\* one iteration of the receive loop on a datagram; rest is the network without it
BcHandle(n, pkt, rest) ==
    /\ UNCHANGED <<meshVars, cacheVars, peerVars, threadVars, callerVars>>
    /\ UNCHANGED <<variant, bc_peers>>
    /\ IF pkt.msg_id \in bc_seen[n]
       THEN /\ bc_net' = rest
            /\ bc_ev' = [NoBcEv EXCEPT !.op = "message", !.node = n, !.pkt = pkt]
            /\ UNCHANGED <<bc_seen, bc_shown>>
       ELSE LET out == BcRelays(variant, n, pkt)
                reach == BcReach(variant, n, bc_peers[n])
            IN /\ bc_seen' = [bc_seen EXCEPT ![n] = @ \cup {pkt.msg_id}]
               /\ bc_shown' = IF BcShows(variant, n, pkt)
                              THEN [bc_shown EXCEPT ![n] = Append(@, pkt.msg_id)]
                              ELSE bc_shown
               /\ bc_net' = rest \cup BcEmit(n, out, reach)
               /\ bc_ev' = [NoBcEv EXCEPT !.op = "message", !.node = n, !.pkt = pkt,
                                          !.fresh = TRUE,
                                          !.shown = BcShows(variant, n, pkt),
                                          !.out = out, !.reach = reach]

BcReceive(d) ==
    /\ d \in bc_net
    /\ BcHandle(d.to, d.pkt, bc_net \ {d})
    /\ UNCHANGED bc_budget

\* a MESSAGE of a node further away, relayed into range with little ttl left
BcForeign ==
    {BcMessage(MsgId("D", 1), "D", to, ttl) : to \in {All, "C"}, ttl \in 0..MaxVariantTTL}

BcArrive(n, pkt) ==
    /\ bc_budget > 0
    /\ bc_budget' = bc_budget - 1
    /\ BcHandle(n, pkt, bc_net)

BcReceiveAt(n) == \E d \in bc_net : d.to = n /\ BcReceive(d)

InitVariants ==
    /\ Constructed({}, {}, {}, 0)
    /\ \E v \in Variant : Variants(v, MaxVariantOps)

NextVariants ==
    \/ \E to \in {All, "C"} : BcSend("A", to)
    \/ \E n \in {"A", "B"} : \E pkt \in BcForeign : BcArrive(n, pkt)
    \/ \E d \in bc_net : BcReceive(d)

SpecVariants ==
    /\ InitVariants /\ [][NextVariants]_vars
    /\ \A n \in Node : WF_vars(BcReceiveAt(n))

\* C32 (as claimed): in the wifi program, a node with peers that handles a fresh
\* MESSAGE addressed neither to it nor to ALL drops it when it came with ttl 0,
\* and otherwise forwards it with the ttl one less than it came with.
C32_WifiDropsOnlyAtZero ==
    (/\ variant = "wifi" /\ bc_ev.op = "message" /\ bc_ev.fresh
     /\ bc_ev.pkt.to \notin {bc_ev.node, All} /\ bc_ev.reach # {}) =>
       IF bc_ev.pkt.ttl = 0 THEN bc_ev.out = {}
       ELSE /\ bc_ev.out # {}
            /\ \A q \in bc_ev.out : q.ttl = bc_ev.pkt.ttl - 1

\* C33 (as claimed): in each broadcast program, a node that handles the first
\* copy of a MESSAGE to ALL shows it once and relays it when its ttl is positive,
\* and a MESSAGE to ALL that A has sent to its neighbours is eventually shown by C,
\* which is two hops from A.
C33_BroadcastShownAndRelayed ==
    /\ [](\A n \in Node : \A i, j \in DOMAIN bc_shown[n] :
             bc_shown[n][i] = bc_shown[n][j] => i = j)
    /\ []((bc_ev.op = "message" /\ bc_ev.fresh /\ bc_ev.pkt.to = All) =>
             /\ bc_ev.shown
             /\ bc_ev.pkt.ttl > 0 => bc_ev.out # {})
    /\ \A k \in 1..MaxVariantOps :
          (/\ bc_ev.op = "send" /\ bc_ev.pkt.to = All /\ bc_ev.out # {}
           /\ bc_ev.pkt.msg_id = MsgId("A", k)) ~>
             (\E i \in DOMAIN bc_shown["C"] : bc_shown["C"][i] = MsgId("A", k))

----------------------------------------------------------------------------
(* SpecInbox: the life cycle of one node, with messages for it arriving,
   send_message, and a caller that reads the inbox and changes what it got. *)

EnvInbox ==
    EnvLife \cup {<<"A", DataPkt(MsgId("A", 2), "A", Tested, 0, "p")>>,
                  <<"A", DataPkt(MsgId("A", 2), "A", Tested, 1, "p")>>}

NextInbox ==
    \/ Start(Tested)
    \/ Stop(Tested)
    \/ StopJoinListen(Tested)
    \/ StopJoinHb(Tested)
    \/ ListenExit(Tested)
    \/ HeartbeatExit(Tested)
    \/ \E e \in EnvInbox : Arrive(Tested, e[1], e[2])
    \/ SendMessage(Tested, "A", "p", 1)
    \/ GetInbox(Tested)
    \/ CallerMutates(Tested)

SpecInbox == InitLife /\ [][NextInbox]_vars

\* whether list s is the beginning of list t
C34_IsPrefix(s, t) == Len(s) <= Len(t) /\ SubSeq(t, 1, Len(s)) = s

\* C34: whatever the step (a receipt, send_message, start, stop, get_inbox, or
\* the caller changing the list get_inbox gave it), the inbox after the step
\* begins with the inbox before it, entry for entry, and get_inbox returns the
\* entries of the inbox in order.
C34_InboxAppendOnly ==
    ev.op # "init" =>
       /\ C34_IsPrefix(ev.pre.inbox, inbox[ev.node])
       /\ ev.op = "get_inbox" => got.items = inbox[ev.node]

\* the caller has emptied the list it got from an inbox of two entries, after a stop
C34_Witness ==
    /\ ev.op = "mutate" /\ got.items = <<>>
    /\ Len(inbox[ev.node]) = 2 /\ ~running[ev.node]

----------------------------------------------------------------------------
(* SpecRing: three running nodes, each a neighbour of the other two, so that the
   neighbour graph is a cycle.  Nothing is lost and every receive loop takes the
   datagrams queued on its socket. *)

Ring == {{"A", "B"}, {"B", "C"}, {"A", "C"}}

InitRing == Wired(Node, Ring, MaxRingOps)

\* the DATA datagrams in flight
DataInFlight == {d \in net : d.pkt.type = "DATA"}

\* one message at a time: send_message is called when no DATA datagram is in flight
NextRing ==
    \/ /\ DataInFlight = {}
       /\ \E dest \in {"C", "D"} : SendMessage("A", dest, "p", MaxTTL)
    \/ \E d \in net : Receive(d)

SpecRing ==
    /\ InitRing /\ [][NextRing]_vars
    /\ \A n \in Node : WF_vars(ReceiveAt(n, "DATA"))

\* C35: in a cycle of neighbours, a node relays a DATA packet only if its msg_id
\* was not in its dedup set, where it is from then on and for ever, so it relays
\* each msg_id at most once; and after finitely many transmissions no DATA
\* datagram is in flight any more.
C35_FloodTerminates ==
    /\ [](ev.op = "relay" =>
             /\ ev.pkt.msg_id \notin ev.pre.delivered_messages
             /\ ev.pkt.msg_id \in delivered_messages[ev.node])
    /\ [](ev.op # "init" => ev.pre.delivered_messages \subseteq delivered_messages[ev.node])
    /\ <>[](DataInFlight = {})

\* a message has been relayed by every node of the cycle and none is in flight
C35_Witness ==
    /\ DataInFlight = {} /\ sends # {}
    /\ \E m \in {s.msg_id : s \in sends} : \A n \in Node : m \in delivered_messages[n]

\* the msg_ids of the messages node n has made with send_message
SentBy(n) == {s.msg_id : s \in {x \in sends : x.node = n}}

\* C36 (as claimed): a node that receives a copy of a message it has itself sent
\* with send_message transmits nothing and leaves its routing table as it was.
C36_OriginatorDropsOwnMessage ==
    (/\ ev.op \in {"data", "relay"} /\ ev.pkt.type = "DATA"
     /\ ev.pkt.msg_id \in SentBy(ev.node)) =>
       ev.out = {} /\ routing_table[ev.node] = ev.pre.routing_table

----------------------------------------------------------------------------
(* Claims about what a node learns about itself, and about the HELLO exchange. *)

\* C37 (as claimed): between two nodes, after connect_to_peer the exchange of
\* HELLOs ends: from some moment on no HELLO is in flight any more.
C37_HelloExchangeEnds == <>[](\A d \in net : d.pkt.type # "HELLO")

\* C38 (as claimed): a node's own id is never a key of its neighbours table nor
\* a destination of its routing table.
C38_NoEntryForSelf ==
    \A n \in Node : neighbors[n][n] = None /\ routing_table[n][n] = None

\* C40: when on_message raises an Exception while a node delivers a message, the step still
\* has appended the delivery to the inbox and sent the ACKs for the msg_id toward
\* the packet's source (at least one when the packet names a source and the node
\* has a neighbour), and the receive loop is still running: its next iteration
\* handles a datagram that arrives.
C40_CallbackRaiseIsContained ==
    ev.raised =>
       LET n == ev.node
           nb == NeighborIds(neighbors[n])
           hop == routing_table[n][ev.pkt.source]
       IN /\ ev.op = "data" /\ ev.delivered
          /\ inbox[n] = Append(ev.pre.inbox, [from |-> ev.pkt.source, id |-> ev.pkt.msg_id,
                                              payload |-> ev.pkt.payload])
          /\ \A t \in ev.out : t.pkt = AckPkt(ev.pkt.msg_id, n, ev.pkt.source)
          /\ {t.nbr : t \in ev.out} =
                IF ev.pkt.source = None THEN {}
                ELSE IF hop # None /\ hop \in nb THEN {hop}
                ELSE IF ev.pkt.source \in nb THEN {ev.pkt.source}
                ELSE nb
          /\ running[n] = ev.pre.running /\ sock_open[n] = ev.pre.sock_open
          /\ alive[n]
          /\ ENABLED HandleDatagram(n, "A", HelloPkt("A"), net)

\* on_message has raised in a delivery and the ACK has been sent
C40_Witness ==
    /\ ev.raised /\ ev.delivered /\ ev.out # {}
    /\ EntriesFor(inbox[ev.node], ev.pkt.msg_id) # {}

----------------------------------------------------------------------------
(* SpecDiamond: four running nodes; A, B and C are neighbours of one another and
   D is a neighbour of C only, so D is two hops from A and C can be reached from
   A directly and through B.  Every node knows its neighbours; nothing is lost
   and every receive loop takes the datagrams queued on its socket. *)

Diamond == {{"A", "B"}, {"A", "C"}, {"B", "C"}, {"C", "D"}}

InitDiamond ==
    /\ ConstructedOn(Ids, Ids, Ids, Diamond, MaxDiamondOps)
    /\ Variants("none", 0)

NextDiamond ==
    \/ /\ DataInFlight = {}
       /\ \E ttl \in 1..MaxTTL : SendMessage("A", "D", "p", ttl)
    \/ \E d \in net : Receive(d)

SpecDiamond ==
    /\ InitDiamond /\ [][NextDiamond]_vars
    /\ \A n \in Ids : WF_vars(ReceiveAt(n, "DATA"))

\* C39 (as claimed): in the diamond, where the shortest path from A to D is the
\* two hops A - C - D, a message that A sends to D with a ttl of at least the hop
\* distance less one eventually is in D's inbox, in whatever order the datagrams
\* arrive.
C39_DeliveredWithinTtl ==
    \A k \in 1..MaxDiamondOps :
       (\E s \in sends : s.msg_id = MsgId("A", k) /\ s.ttl >= 1) ~>
          (EntriesFor(inbox["D"], MsgId("A", k)) # {})

====
